---------------------------- MODULE Spec2Model ----------------------------
(***************************************************************************)
(* Model of src/app.py: the Flask backend that answers four POST routes by *)
(* resolving a GitLab repository URL (get_gitlab_base_url,                 *)
(* get_project_id_from_url) and paging through the GitLab REST API         *)
(* (make_gitlab_api_request).                                              *)
(*                                                                         *)
(* Representation.  A Python str taken from the request is a sequence of   *)
(* one-character strings, so that slicing, splitting, suffix tests and     *)
(* percent-encoding are computed character by character.  Long literals of *)
(* the program ("/api/v4", "/projects/", ...) are one element each.        *)
(* Python's None is the sequence None, which is no character sequence.     *)
(* A JSON object of the GitLab API is an integer id; the fields the routes *)
(* read from it are the operators Name, CommitId, Path, IsBlob and Diffs.  *)
(***************************************************************************)
EXTENDS Integers, Sequences, FiniteSets, TLC

VARIABLES
    pc,           \* position of the running handler / function
    route,        \* the route being served
    data,         \* the request's JSON body
    base_url,     \* local base_url of the route (or ValueError)
    project_id,   \* local project_id of the route (or ValueError)
    call_no,      \* which make_gitlab_api_request call of the route is running
    call,         \* its arguments: endpoint, base_url, pat, params
    page,         \* local page of make_gitlab_api_request
    all_results,  \* local all_results of make_gitlab_api_request
    err,          \* the exception raised by make_gitlab_api_request
    saved,        \* the route's locals computed from the earlier calls
    outbound,     \* the requests.get calls made for this request, in order
    served,       \* what the GitLab server answered to the requests of the running call
    log,          \* the lines printed for this request, in order
    response      \* the HTTP response of the route

vars == <<pc, route, data, base_url, project_id, call_no, call, page,
          all_results, err, saved, outbound, served, log, response>>

---------------------------------------------------------------------------
(* Bounds of the model *)

\* number of path tokens an enumerated repository URL carries after its prefix
MaxTokens == 4

\* number of pages the GitLab server holds at most for one endpoint
MaxPages == 2

---------------------------------------------------------------------------
(* Python values *)

None == <<"None">>
ValueError == <<"ValueError">>

\* bool(x) of a str-or-None value
Truthy(x) == x # None /\ x # <<>>

\* the variables' values while nothing has set them
NoData == [repoUrl |-> None, pat |-> None, sourceBranch |-> None,
           destinationBranch |-> None, filePath |-> 0,
           fromDate |-> None, toDate |-> None]

NoCall == [endpoint |-> <<>>, base_url |-> <<>>, pat |-> None, params |-> <<>>]

NoSaved == [source |-> <<>>, destination |-> <<>>, commit_id |-> 0]

NoResponse == [status |-> 0, body |-> <<>>]

---------------------------------------------------------------------------
(* str operations *)

Range(s) == {s[i] : i \in 1..Len(s)}

\* s.find(c) + 1: the first position of character c in s, 0 when absent
Find(s, c) ==
    IF \E i \in 1..Len(s) : s[i] = c
    THEN CHOOSE i \in 1..Len(s) : s[i] = c /\ \A j \in 1..(i - 1) : s[j] # c
    ELSE 0

\* s[i-1:] of Python, for a 1-based i
From(s, i) == SubSeq(s, i, Len(s))

\* s.endswith(suffix)
EndsWith(s, suffix) ==
    /\ Len(s) >= Len(suffix)
    /\ SubSeq(s, Len(s) - Len(suffix) + 1, Len(s)) = suffix

\* s.startswith(prefix)
StartsWith(s, prefix) ==
    /\ Len(s) >= Len(prefix)
    /\ SubSeq(s, 1, Len(prefix)) = prefix

\* s.split(c): the pieces between the occurrences of c, empty pieces kept
RECURSIVE Split(_, _)
Split(s, c) ==
    LET i == Find(s, c)
    IN  IF i = 0 THEN <<s>>
        ELSE <<SubSeq(s, 1, i - 1)>> \o Split(From(s, i + 1), c)

\* sep.join(parts)
RECURSIVE Join(_, _)
Join(parts, sep) ==
    IF parts = <<>> THEN <<>>
    ELSE IF Len(parts) = 1 THEN parts[1]
    ELSE parts[1] \o sep \o Join(Tail(parts), sep)

\* [part for part in parts if part]
RECURSIVE NonEmptyParts(_)
NonEmptyParts(parts) ==
    IF parts = <<>> THEN <<>>
    ELSE IF parts[1] = <<>> THEN NonEmptyParts(Tail(parts))
    ELSE <<parts[1]>> \o NonEmptyParts(Tail(parts))

\* the concatenation of a sequence of sequences
RECURSIVE Flatten(_)
Flatten(ss) == IF ss = <<>> THEN <<>> ELSE ss[1] \o Flatten(Tail(ss))

DotGit == <<".", "g", "i", "t">>

---------------------------------------------------------------------------
(* urllib.parse *)

UpperCase == {"A", "B", "C", "D", "E", "F", "G", "H", "I", "J", "K", "L", "M",
              "N", "O", "P", "Q", "R", "S", "T", "U", "V", "W", "X", "Y", "Z"}
LowerCase == {"a", "b", "c", "d", "e", "f", "g", "h", "i", "j", "k", "l", "m",
              "n", "o", "p", "q", "r", "s", "t", "u", "v", "w", "x", "y", "z"}
Digits == {"0", "1", "2", "3", "4", "5", "6", "7", "8", "9"}

\* urllib.parse.scheme_chars
SchemeChars == UpperCase \cup LowerCase \cup Digits \cup {"+", "-", "."}

\* str.lower() on the upper-case letters the enumerated URLs use
LowerChar(c) ==
    CASE c = "H" -> "h"
      [] c = "G" -> "g"
      [] c = "L" -> "l"
      [] OTHER -> c

Lower(s) == [i \in 1..Len(s) |-> LowerChar(s[i])]

\* the first position >= start of one of the characters of cs, Len(s)+1 when none
FirstOf(s, cs, start) ==
    IF \E i \in start..Len(s) : s[i] \in cs
    THEN CHOOSE i \in start..Len(s) :
            s[i] \in cs /\ \A j \in start..(i - 1) : s[j] \notin cs
    ELSE Len(s) + 1

\* urlparse(url): scheme, netloc, path, query, fragment as urlsplit finds them.
\* (The enumerated URLs hold no ';', no '[' and no leading blank, so the
\* params split, the IPv6 check and the stripping never apply.)
urlparse(url) ==
    LET i == Find(url, ":")
        hasScheme == /\ i > 1
                     /\ url[1] \in UpperCase \cup LowerCase
                     /\ \A k \in 1..(i - 1) : url[k] \in SchemeChars
        scheme == IF hasScheme THEN Lower(SubSeq(url, 1, i - 1)) ELSE <<>>
        rest1 == IF hasScheme THEN From(url, i + 1) ELSE url
        hasNetloc == StartsWith(rest1, <<"/", "/">>)
        delim == FirstOf(rest1, {"/", "?", "#"}, 3)
        netloc == IF hasNetloc THEN SubSeq(rest1, 3, delim - 1) ELSE <<>>
        rest2 == IF hasNetloc THEN From(rest1, delim) ELSE rest1
        h == Find(rest2, "#")
        fragment == IF h > 0 THEN From(rest2, h + 1) ELSE <<>>
        rest3 == IF h > 0 THEN SubSeq(rest2, 1, h - 1) ELSE rest2
        q == Find(rest3, "?")
        query == IF q > 0 THEN From(rest3, q + 1) ELSE <<>>
        path == IF q > 0 THEN SubSeq(rest3, 1, q - 1) ELSE rest3
    IN  [scheme |-> scheme, netloc |-> netloc, path |-> path,
         query |-> query, fragment |-> fragment]

\* the characters quote() never encodes: letters, digits and "_.-~"
AlwaysSafe == UpperCase \cup LowerCase \cup Digits \cup {"_", ".", "-", "~"}

\* quote() of one character with safe='': itself, or "%XX" of its ASCII code
\* (written out for the characters the enumerated strings hold)
QuoteChar(c) ==
    CASE c \in AlwaysSafe -> <<c>>
      [] c = "/" -> <<"%", "2", "F">>
      [] c = "+" -> <<"%", "2", "B">>
      [] c = "@" -> <<"%", "4", "0">>
      [] c = ":" -> <<"%", "3", "A">>
      [] c = "?" -> <<"%", "3", "F">>
      [] c = "#" -> <<"%", "2", "3">>
      [] c = "%" -> <<"%", "2", "5">>
      [] OTHER -> <<"%", "X", "X">>

\* quote(s, safe='')
quote(s) == Flatten([i \in 1..Len(s) |-> QuoteChar(s[i])])

---------------------------------------------------------------------------
(* get_gitlab_base_url and get_project_id_from_url *)

\* a plausible slip of get_gitlab_base_url: the scheme/netloc check left out
get_gitlab_base_url_unchecked(repo_url) ==
    LET parsed_url == urlparse(repo_url)
    IN  parsed_url.scheme \o <<":", "/", "/">> \o parsed_url.netloc

get_gitlab_base_url(repo_url) ==
    LET parsed_url == urlparse(repo_url)
    IN  IF parsed_url.scheme = <<>> \/ parsed_url.netloc = <<>>
        THEN ValueError
        ELSE parsed_url.scheme \o <<":", "/", "/">> \o parsed_url.netloc

\* a plausible slip of get_project_id_from_url: '/' kept as a safe character
\* (quote's default safe='/')
get_project_id_from_url_safe_slash(repo_url) ==
    LET parsed_url == urlparse(repo_url)
        path_parts == NonEmptyParts(Split(parsed_url.path, "/"))
        project_path == Join(path_parts, <<"/">>)
        stripped == IF EndsWith(project_path, DotGit)
                    THEN SubSeq(project_path, 1, Len(project_path) - 4)
                    ELSE project_path
    IN  IF path_parts = <<>> THEN ValueError
        ELSE Flatten([i \in 1..Len(stripped) |->
                        IF stripped[i] = "/" THEN <<"/">> ELSE QuoteChar(stripped[i])])

\* a plausible slip of get_project_id_from_url: the .git suffix never stripped
get_project_id_from_url_keep_git(repo_url) ==
    LET parsed_url == urlparse(repo_url)
        path_parts == NonEmptyParts(Split(parsed_url.path, "/"))
    IN  IF path_parts = <<>> THEN ValueError
        ELSE quote(Join(path_parts, <<"/">>))

get_project_id_from_url(repo_url) ==
    LET parsed_url == urlparse(repo_url)
        path_parts == NonEmptyParts(Split(parsed_url.path, "/"))
        project_path == Join(path_parts, <<"/">>)
        stripped == IF EndsWith(project_path, DotGit)
                    THEN SubSeq(project_path, 1, Len(project_path) - 4)
                    ELSE project_path
    IN  IF path_parts = <<>> THEN ValueError
        ELSE quote(stripped)

---------------------------------------------------------------------------
(* The repository URLs the model enumerates *)

Https == <<"h", "t", "t", "p", "s", ":", "/", "/">>
GitlabCom == <<"g", "i", "t", "l", "a", "b", ".", "c", "o", "m">>
UserInfo == <<"u", "s", "e", "r", ":", "t", "o", "k", "@">>
SshUser == <<"g", "i", "t", "@">>

\* what precedes the path: https://gitlab.com, the same with userinfo, with an
\* upper-case scheme and host, the SSH shorthand git@gitlab.com:, nothing at
\* all, a scheme without "//", and "//" without a scheme
UrlPrefixes ==
    { Https \o GitlabCom,
      Https \o UserInfo \o GitlabCom,
      <<"H", "t", "t", "p", "s", ":", "/", "/", "G", "i", "t", "L", "a", "b", ".", "c", "o", "m">>,
      SshUser \o GitlabCom \o <<":">>,
      <<>>,
      <<"h", "t", "t", "p", "s", ":">>,
      <<"/", "/">> \o GitlabCom }

\* the pieces a path is put together from
PathTokens == { <<"a">>, <<"b">>, <<"/">>, DotGit, <<".", "G", "i", "t">>, <<"+">> }

\* what follows the path: nothing, or a query
UrlSuffixes == { <<>>, <<"?", "x">> }

RECURSIVE TokenPaths(_)
TokenPaths(n) ==
    IF n = 0 THEN { <<>> }
    ELSE LET shorter == TokenPaths(n - 1)
         IN  shorter \cup { p \o t : p \in shorter, t \in PathTokens }

\* "git@gitlab.com:group/sub/project.git"
SshScenarioUrl ==
    SshUser \o GitlabCom \o
    <<":", "g", "r", "o", "u", "p", "/", "s", "u", "b", "/",
      "p", "r", "o", "j", "e", "c", "t">> \o DotGit

Urls ==
    { pre \o p \o suf : pre \in UrlPrefixes, p \in TokenPaths(MaxTokens),
                        suf \in UrlSuffixes }
    \cup { SshScenarioUrl }

---------------------------------------------------------------------------
(* Python dicts: a sequence of <<key, value>> pairs in insertion order *)

DictHas(d, k) == \E i \in 1..Len(d) : d[i][1] = k

DictGet(d, k) == d[CHOOSE i \in 1..Len(d) : d[i][1] = k][2]

\* d[k] = v
DictSet(d, k, v) ==
    IF DictHas(d, k)
    THEN [i \in 1..Len(d) |-> IF d[i][1] = k THEN <<k, v>> ELSE d[i]]
    ELSE Append(d, <<k, v>>)

---------------------------------------------------------------------------
(* The GitLab server: what it may answer to one requests.get *)

\* per_page of make_gitlab_api_request
PerPage == 100

\* the body of a reply that is not a JSON list
ApiObject == 0

\* the i-th object of the list the server returns as page p: distinct ids,
\* in descending order within a page
Item(p, i) == p * PerPage - i + 1

ListPage(p, n) == [i \in 1..n |-> Item(p, i)]

\* the lengths of the list pages the server returns
ListSizes == {0, PerPage - 1, PerPage}

\* the statuses raise_for_status() raises on
HttpErrorStatuses == {401, 403, 404, 500}

Reply(kind, status, n) == [kind |-> kind, status |-> status, n |-> n]

\* the replies to the request for page pg; the server holds MaxPages pages
\* at most, so its last page is not a full one
Replies(pg) ==
    { Reply("timeout", 0, 0), Reply("network", 0, 0), Reply("badjson", 200, 0),
      Reply("object", 200, 0) }
    \cup { Reply("http", s, 0) : s \in HttpErrorStatuses }
    \cup { Reply("list", 200, n) : n \in {m \in ListSizes : m < PerPage \/ pg < MaxPages} }

IsFailure(reply) == reply.kind \in {"timeout", "network", "badjson", "http"}

\* the fields the routes read from an object of the API
Name(o) == o
CommitId(o) == o
Path(o) == o
IsBlob(o) == o % 2 = 1
CommitEntry(o) == [hash |-> o, message |-> o, author |-> o, date |-> o]

\* the branch names 'main' and 'master'
MainName == 1
MasterName == PerPage

Diff(new_file, deleted_file, diff, new_path, old_path) ==
    [new_file |-> new_file, deleted_file |-> deleted_file, diff |-> diff,
     new_path |-> new_path, old_path |-> old_path]

\* the 'diffs' of the object the compare endpoint returns (diff 0: no text; path
\* 0: no path): a modified file, a new one, a deleted one, a renamed one
\* without text, and the modified file once more
Diffs(o) ==
    IF o = ApiObject
    THEN << Diff(FALSE, FALSE, 31, 5, 5), Diff(TRUE, FALSE, 32, 3, 3),
            Diff(FALSE, TRUE, 33, 7, 7), Diff(FALSE, FALSE, 0, 9, 8),
            Diff(FALSE, FALSE, 31, 5, 5) >>
    ELSE <<>>

---------------------------------------------------------------------------
(* make_gitlab_api_request *)

\* headers: the PAT travels as the Private-Token header
Headers(pat) == IF Truthy(pat) THEN << <<"Private-Token", pat>> >> ELSE <<>>

\* a plausible slip of the paging parameters: the caller's page and per_page
\* kept when it supplies them (dict.setdefault)
CurrentParams_setdefault(params, pg) ==
    LET withPage == IF DictHas(params, "page") THEN params
                    ELSE DictSet(params, "page", pg)
    IN  IF DictHas(withPage, "per_page") THEN withPage
        ELSE DictSet(withPage, "per_page", PerPage)

\* current_params: a copy of the caller's params with page and per_page set
CurrentParams(params, pg) ==
    DictSet(DictSet(params, "page", pg), "per_page", PerPage)

\* url = f"{base_url}/api/v4{endpoint}"
RequestUrl(base, endpoint) == base \o <<"/api/v4">> \o endpoint

\* str() of a parameter value
ParamText(k, v) ==
    IF k \in {"page", "per_page", "ref"} THEN <<ToString(v)>>
    ELSE IF k \in {"recursive", "straight"} THEN <<"True">>
    ELSE v

RECURSIVE DictText(_)
DictText(d) ==
    IF d = <<>> THEN <<>>
    ELSE <<d[1][1], ": ">> \o ParamText(d[1][1], d[1][2]) \o <<", ">> \o DictText(Tail(d))

BoolText(b) == IF b THEN <<"True">> ELSE <<"False">>

\* a plausible slip of the request log line: the PAT itself printed
ApiLogLine_prints_pat(url, current_params, pat) ==
    <<"Making GitLab API request to: ">> \o url \o <<" with params: ">>
    \o DictText(current_params) \o <<" (PAT provided: ">> \o pat \o <<")">>

\* the line printed before each requests.get
ApiLogLine(url, current_params, pat) ==
    <<"Making GitLab API request to: ">> \o url \o <<" with params: ">>
    \o DictText(current_params) \o <<" (PAT provided: ">> \o BoolText(Truthy(pat))
    \o <<")">>

\* the message of the Exception raised for a failed reply
ApiErrorMessage(reply, endpoint) ==
    CASE reply.kind = "timeout" ->
            <<"GitLab API request timed out for endpoint: ">> \o endpoint
      [] reply.kind = "http" /\ reply.status = 401 ->
            <<"Authentication failed (401 Unauthorized). Please check your PAT.">>
      [] reply.kind = "http" /\ reply.status = 403 ->
            <<"Access forbidden (403 Forbidden). Insufficient permissions or repository is private.">>
      [] reply.kind = "http" /\ reply.status = 404 ->
            <<"Resource not found (404 Not Found). Check repository URL or branch names. Detail: ",
              "response.text">>
      [] reply.kind = "http" ->
            <<"GitLab API error ", ToString(reply.status), ": ", "response.text">>
      [] reply.kind = "network" ->
            <<"Network error or invalid GitLab API URL: ", "RequestException">>
      [] OTHER ->
            <<"An unexpected error occurred during API request: ", "JSONDecodeError">>

Outcome(next_pc, results, pg, e) ==
    [pc |-> next_pc, all_results |-> results, page |-> pg, err |-> e]

\* a plausible slip of the loop body: a timeout ends the loop like a short
\* page, and what was gathered so far is returned
PageOutcome_timeout_breaks(results, pg, reply, endpoint) ==
    CASE reply.kind = "timeout" -> Outcome("returned", results, pg, None)
      [] IsFailure(reply) /\ reply.kind # "timeout" ->
            Outcome("raised", <<>>, pg, ApiErrorMessage(reply, endpoint))
      [] reply.kind = "object" ->
            Outcome("returned", Append(results, ApiObject), pg, None)
      [] reply.kind = "list" /\ reply.n = 0 -> Outcome("returned", results, pg, None)
      [] reply.kind = "list" /\ reply.n > 0 /\ reply.n < PerPage ->
            Outcome("returned", results \o ListPage(pg, reply.n), pg, None)
      [] OTHER -> Outcome("paging", results \o ListPage(pg, reply.n), pg + 1, None)

\* one turn of the while loop once requests.get has answered: raise, break
\* with the results, or go on to the next page
PageOutcome(results, pg, reply, endpoint) ==
    CASE IsFailure(reply) ->
            Outcome("raised", <<>>, pg, ApiErrorMessage(reply, endpoint))
      [] reply.kind = "object" ->
            Outcome("returned", Append(results, ApiObject), pg, None)
      [] reply.kind = "list" /\ reply.n = 0 -> Outcome("returned", results, pg, None)
      [] reply.kind = "list" /\ reply.n > 0 /\ reply.n < PerPage ->
            Outcome("returned", results \o ListPage(pg, reply.n), pg, None)
      [] OTHER -> Outcome("paging", results \o ListPage(pg, reply.n), pg + 1, None)

\* one turn of the while loop: the parameters and the URL are built, the
\* line is printed, requests.get is called and its reply handled
FetchPage ==
    /\ pc = "paging"
    /\ \E reply \in Replies(page) :
         LET current_params == CurrentParams(call.params, page)
             url == RequestUrl(call.base_url, call.endpoint)
             out == PageOutcome(all_results, page, reply, call.endpoint)
         IN  /\ log' = Append(log, ApiLogLine(url, current_params, call.pat))
             /\ outbound' = Append(outbound,
                                   [call_no |-> call_no, url |-> url,
                                    headers |-> Headers(call.pat),
                                    params |-> current_params, timeout |-> 30])
             /\ served' = Append(served, reply)
             /\ pc' = out.pc
             /\ all_results' = out.all_results
             /\ page' = out.page
             /\ err' = out.err
    /\ UNCHANGED <<route, data, base_url, project_id, call_no, call, saved, response>>

---------------------------------------------------------------------------
(* The routes *)

Routes == {"branches", "compare_commits", "compare_files", "file_content_diff"}

PatA == <<"glpat-A">>
PatB == <<"glpat-B">>

\* the personal access tokens
Tokens == {PatA, PatB}

\* the pat of a request: absent, empty, or a token
Pats == {None, <<>>, PatA}

\* the repoUrl of a request: absent, empty, and URLs that resolve or do not
RouteUrls ==
    { None, <<>>,
      Https \o GitlabCom \o <<"/", "a", "/", "b">>,
      Https \o UserInfo \o GitlabCom \o <<"/", "a">> \o DotGit,
      Https \o GitlabCom \o <<"/", "/", "/">>,
      GitlabCom \o <<"/", "a", "/", "b">>,
      SshScenarioUrl }

SourceBranches == {None, <<"f", "/", "x">>}
DestinationBranches == {None, <<"d", "e", "v">>}
\* filePath: 0 when absent or empty, else a path
FilePaths == {0, 5, 8}
Dates == {None, <<"2024-01-01">>}

\* the JSON bodies the route r is sent: the keys it does not read are absent
Requests(r) ==
    { [repoUrl |-> u, pat |-> p, sourceBranch |-> s, destinationBranch |-> d,
       filePath |-> f, fromDate |-> fd, toDate |-> td] :
        u \in RouteUrls, p \in Pats,
        s \in IF r = "branches" THEN {None} ELSE SourceBranches,
        d \in IF r = "branches" THEN {None} ELSE DestinationBranches,
        f \in IF r = "file_content_diff" THEN FilePaths ELSE {0},
        fd \in IF r = "compare_commits" THEN Dates ELSE {None},
        td \in IF r = "compare_commits" THEN Dates ELSE {None} }

\* a plausible slip of the validation: only the repository URL is required
Required_url_only(r, d) == Truthy(d.repoUrl)

\* the route's check of its required fields: not repo_url, not all([...])
Required(r, d) ==
    CASE r = "branches" -> Truthy(d.repoUrl)
      [] r = "file_content_diff" ->
            /\ Truthy(d.repoUrl) /\ Truthy(d.sourceBranch)
            /\ Truthy(d.destinationBranch) /\ d.filePath # 0
      [] OTHER ->
            /\ Truthy(d.repoUrl) /\ Truthy(d.sourceBranch)
            /\ Truthy(d.destinationBranch)

\* the error of the 400 response
RequiredMessage(r) ==
    CASE r = "branches" -> <<"Repository URL is required.">>
      [] r = "compare_commits" ->
            <<"Repository URL, sourceBranch, and destinationBranch are required.">>
      [] r = "compare_files" ->
            <<"Missing repository URL, source branch, or destination branch">>
      [] OTHER -> <<"Missing required parameters for file content diff.">>

BaseUrlMessage ==
    <<"Invalid GitLab repository URL. Must include scheme (e.g., https://) and hostname.">>
ProjectPathMessage ==
    <<"Invalid GitLab repository URL format. Could not extract project path.">>

\* the line the route prints first
ReceivedLine(r, d) ==
    CASE r = "branches" ->
            <<"Received request for branches: repoUrl=">> \o d.repoUrl
            \o <<", PAT provided=">> \o BoolText(Truthy(d.pat))
      [] r = "compare_commits" ->
            <<"Received request for comparing commits: repoUrl=">> \o d.repoUrl
            \o <<", sourceBranch=">> \o d.sourceBranch
            \o <<", destinationBranch=">> \o d.destinationBranch
            \o <<", fromDate=">> \o d.fromDate \o <<", toDate=">> \o d.toDate
            \o <<", PAT provided=">> \o BoolText(Truthy(d.pat))
      [] r = "compare_files" ->
            <<"Received request for file comparison: repoUrl=">> \o d.repoUrl
            \o <<", sourceBranch=">> \o d.sourceBranch
            \o <<", destinationBranch=">> \o d.destinationBranch
            \o <<", PAT provided=">> \o BoolText(Truthy(d.pat))
      [] OTHER ->
            <<"Received request for file content diff: repoUrl=">> \o d.repoUrl
            \o <<", sourceBranch=">> \o d.sourceBranch
            \o <<", destinationBranch=">> \o d.destinationBranch
            \o <<", filePath=", ToString(d.filePath)>>
            \o <<", PAT provided=">> \o BoolText(Truthy(d.pat)) \o <<")">>

\* the line the route's except clause prints
ErrorLine(r, msg) ==
    CASE r = "branches" -> <<"Error in get_branches: ">> \o msg
      [] r = "compare_commits" -> <<"Error in compare_commits: ">> \o msg
      [] r = "compare_files" -> <<"An error occurred during file comparison: ">> \o msg
      [] OTHER -> <<"Error fetching file content diff: ">> \o msg

Call(endpoint, base, pat, params) ==
    [endpoint |-> endpoint, base_url |-> base, pat |-> pat, params |-> params]

\* the since/until parameters of compare_commits
DateParams(d) ==
    LET since == IF Truthy(d.fromDate)
                 THEN << <<"since", d.fromDate \o <<"T00:00:00Z">> >> >> ELSE <<>>
    IN  IF Truthy(d.toDate)
        THEN Append(since, <<"until", d.toDate \o <<"T23:59:59Z">> >>) ELSE since

CompareParams(d) ==
    << <<"from", d.sourceBranch>>, <<"to", d.destinationBranch>>, <<"straight", TRUE>> >>

\* the first make_gitlab_api_request call of the route
FirstCall(r, d, base, pid) ==
    CASE r = "branches" ->
            Call(<<"/projects/">> \o pid \o <<"/repository/branches">>, base, d.pat,
                 << <<"per_page", 100>> >>)
      [] r = "compare_commits" ->
            Call(<<"/projects/">> \o pid \o <<"/repository/commits">>, base, d.pat,
                 Append(DateParams(d), <<"ref_name", d.sourceBranch>>))
      [] r = "compare_files" ->
            Call(<<"/projects/">> \o pid \o <<"/repository/branches/">>
                   \o quote(d.sourceBranch), base, d.pat, <<>>)
      [] OTHER ->
            Call(<<"/projects/">> \o pid \o <<"/repository/compare">>, base, d.pat,
                 CompareParams(d))

\* return jsonify(body), status with the lines printed on the way
Respond(status, body, lines) ==
    /\ pc' = "responded"
    /\ served' = served
    /\ response' = [status |-> status, body |-> body]
    /\ log' = log \o lines

\* except Exception as e: print(...); return jsonify({"error": str(e)}), 500
RouteError(r, msg, lines) ==
    Respond(500, [error |-> msg], Append(lines, ErrorLine(r, msg)))

\* a make_gitlab_api_request call is entered
StartCall(n, c, lines) ==
    /\ pc' = "paging"
    /\ call_no' = n
    /\ call' = c
    /\ page' = 1
    /\ all_results' = <<>>
    /\ err' = None
    /\ served' = <<>>
    /\ log' = log \o lines

\* a route from its entry to its first make_gitlab_api_request call: the
\* body is read, the line printed, the required fields checked, the URL resolved
Handle(r) ==
    /\ pc = "idle"
    /\ \E d \in Requests(r) :
         /\ route' = r
         /\ data' = d
         /\ IF ~Required(r, d)
            THEN /\ Respond(400, [error |-> RequiredMessage(r)], <<ReceivedLine(r, d)>>)
                 /\ UNCHANGED <<base_url, project_id, call_no, call, page,
                                all_results, err>>
            ELSE IF get_gitlab_base_url(d.repoUrl) = ValueError
            THEN /\ base_url' = ValueError
                 /\ RouteError(r, BaseUrlMessage, <<ReceivedLine(r, d)>>)
                 /\ UNCHANGED <<project_id, call_no, call, page, all_results, err>>
            ELSE IF get_project_id_from_url(d.repoUrl) = ValueError
            THEN /\ base_url' = get_gitlab_base_url(d.repoUrl)
                 /\ project_id' = ValueError
                 /\ RouteError(r, ProjectPathMessage, <<ReceivedLine(r, d)>>)
                 /\ UNCHANGED <<call_no, call, page, all_results, err>>
            ELSE /\ base_url' = get_gitlab_base_url(d.repoUrl)
                 /\ project_id' = get_project_id_from_url(d.repoUrl)
                 /\ StartCall(1, FirstCall(r, d, get_gitlab_base_url(d.repoUrl),
                                           get_project_id_from_url(d.repoUrl)),
                              <<ReceivedLine(r, d)>>)
                 /\ UNCHANGED response
    /\ UNCHANGED <<saved, outbound>>

get_branches == Handle("branches")
compare_commits == Handle("compare_commits")
compare_files == Handle("compare_files")
get_file_content_diff == Handle("file_content_diff")

Less(a, b) == a < b

\* sorted(xs)
Sorted(xs) == SortSeq(xs, Less)

\* a sorted list without its repeated elements
RECURSIVE Dedup(_)
Dedup(s) ==
    IF Len(s) <= 1 THEN s
    ELSE IF s[1] = s[2] THEN Dedup(Tail(s))
    ELSE <<s[1]>> \o Dedup(Tail(s))

\* sorted(list(set(xs)))
SortedSet(xs) == Dedup(Sorted(xs))

\* sorted(list(set(xs) - set(ys)))
SortedDifference(xs, ys) ==
    LET other == Range(ys)
        NotInOther(x) == x \notin other
    IN  SortedSet(SelectSeq(xs, NotInOther))

\* branches.insert(0, branches.pop(branches.index(name)))
MoveFirst(branches, name) ==
    LET NotName(b) == b # name
        i == CHOOSE k \in 1..Len(branches) :
                branches[k] = name /\ \A j \in 1..(k - 1) : branches[j] # name
    IN  <<name>> \o SubSeq(branches, 1, i - 1) \o SubSeq(branches, i + 1, Len(branches))

\* the branch names, sorted, with main or else master moved to the front
BranchList(branches_data) ==
    LET branches == Sorted([i \in 1..Len(branches_data) |-> Name(branches_data[i])])
    IN  IF MainName \in Range(branches) THEN MoveFirst(branches, MainName)
        ELSE IF MasterName \in Range(branches) THEN MoveFirst(branches, MasterName)
        ELSE branches

\* get_branches after its call
BranchesDone ==
    /\ pc \in {"returned", "raised"}
    /\ route = "branches"
    /\ IF pc = "raised"
       THEN RouteError(route, err, <<>>)
       ELSE LET branches == BranchList(all_results)
            IN  Respond(200, [branches |-> branches],
                        << <<"Successfully fetched ", ToString(Len(branches)),
                             " branches.">> >>)
    /\ UNCHANGED <<route, data, base_url, project_id, call_no, call, page,
                   all_results, err, saved, outbound>>

CommitList(commits_data) == [i \in 1..Len(commits_data) |-> CommitEntry(commits_data[i])]

\* compare_commits after the call for the source branch
CompareCommitsSourceDone ==
    /\ pc \in {"returned", "raised"}
    /\ route = "compare_commits"
    /\ call_no = 1
    /\ IF pc = "raised"
       THEN /\ RouteError(route, err, <<>>)
            /\ UNCHANGED <<call_no, call, page, all_results, err, saved>>
       ELSE /\ saved' = [saved EXCEPT !.source = CommitList(all_results)]
            /\ StartCall(2, Call(call.endpoint, base_url, data.pat,
                                 Append(DateParams(data),
                                        <<"ref_name", data.destinationBranch>>)),
                         << <<"Found ", ToString(Len(all_results)),
                              " commits in source branch.">> >>)
            /\ UNCHANGED response
    /\ UNCHANGED <<route, data, base_url, project_id, outbound>>

\* compare_commits after the call for the destination branch
CompareCommitsDestinationDone ==
    /\ pc \in {"returned", "raised"}
    /\ route = "compare_commits"
    /\ call_no = 2
    /\ IF pc = "raised"
       THEN RouteError(route, err, <<>>)
       ELSE Respond(200, [source_commits |-> saved.source,
                          destination_commits |-> CommitList(all_results)],
                    << <<"Found ", ToString(Len(all_results)),
                         " commits in destination branch.">> >>)
    /\ UNCHANGED <<route, data, base_url, project_id, call_no, call, page,
                   all_results, err, saved, outbound>>

TreeCall(commit_id) ==
    Call(<<"/projects/">> \o project_id \o <<"/repository/tree">>, base_url, data.pat,
         << <<"ref", commit_id>>, <<"recursive", TRUE>> >>)

\* compare_files after the call for a branch (n = 1: source, 3: destination):
\* the commit id is read from the first result and the tree is asked for
CompareFilesBranchDone(n) ==
    /\ pc \in {"returned", "raised"}
    /\ route = "compare_files"
    /\ call_no = n
    /\ IF pc = "raised"
       THEN /\ RouteError(route, err, <<>>)
            /\ UNCHANGED <<call_no, call, page, all_results, err, saved>>
       ELSE IF all_results = <<>>
       THEN /\ RouteError(route, <<"list index out of range">>, <<>>)
            /\ UNCHANGED <<call_no, call, page, all_results, err, saved>>
       ELSE /\ saved' = [saved EXCEPT !.commit_id = CommitId(all_results[1])]
            /\ StartCall(n + 1, TreeCall(CommitId(all_results[1])), <<>>)
            /\ UNCHANGED response
    /\ UNCHANGED <<route, data, base_url, project_id, outbound>>

CompareFilesSourceBranchDone == CompareFilesBranchDone(1)
CompareFilesDestinationBranchDone == CompareFilesBranchDone(3)

\* sorted([item['path'] for item in tree_data if item['type'] == 'blob'])
BlobPaths(tree_data) ==
    LET blobs == SelectSeq(tree_data, IsBlob)
    IN  Sorted([i \in 1..Len(blobs) |-> Path(blobs[i])])

FilesLines(which, branch, files) ==
    << <<"DEBUG: Files in ", which, " branch (">> \o branch \o <<"): ", ToString(files)>>,
       <<"Found ", ToString(Len(files)), " files in ", which, " branch.">> >>

\* compare_files after the call for the source tree
CompareFilesSourceTreeDone ==
    /\ pc \in {"returned", "raised"}
    /\ route = "compare_files"
    /\ call_no = 2
    /\ IF pc = "raised"
       THEN /\ RouteError(route, err, <<>>)
            /\ UNCHANGED <<call_no, call, page, all_results, err, saved>>
       ELSE /\ saved' = [saved EXCEPT !.source = BlobPaths(all_results)]
            /\ StartCall(3, Call(<<"/projects/">> \o project_id
                                   \o <<"/repository/branches/">>
                                   \o quote(data.destinationBranch),
                                 base_url, data.pat, <<>>),
                         FilesLines("source", data.sourceBranch, BlobPaths(all_results)))
            /\ UNCHANGED response
    /\ UNCHANGED <<route, data, base_url, project_id, outbound>>

\* compare_files after the call for the destination tree
CompareFilesDestinationTreeDone ==
    /\ pc \in {"returned", "raised"}
    /\ route = "compare_files"
    /\ call_no = 4
    /\ IF pc = "raised"
       THEN /\ RouteError(route, err, <<>>)
            /\ UNCHANGED <<call_no, call, page, all_results, err, saved>>
       ELSE /\ saved' = [saved EXCEPT !.destination = BlobPaths(all_results)]
            /\ StartCall(5, Call(<<"/projects/">> \o project_id
                                   \o <<"/repository/compare">>,
                                 base_url, data.pat, CompareParams(data)),
                         FilesLines("destination", data.destinationBranch,
                                    BlobPaths(all_results)))
            /\ UNCHANGED response
    /\ UNCHANGED <<route, data, base_url, project_id, outbound>>

\* compare_data[0].get('diffs', []) if compare_data else []
CompareDiffs(compare_data) ==
    IF compare_data = <<>> THEN <<>> ELSE Diffs(compare_data[1])

\* the paths of the diffs that are neither new nor deleted and have a text
ModifiedFiles(compare_diffs) ==
    LET IsModified(d) == ~d.new_file /\ ~d.deleted_file /\ d.diff # 0
        modified == SelectSeq(compare_diffs, IsModified)
    IN  SortedSet([i \in 1..Len(modified) |->
                     IF modified[i].new_path # 0 THEN modified[i].new_path
                     ELSE modified[i].old_path])

\* compare_files after the call for the comparison, which has a try of its
\* own: when it raised, a warning is printed and no file is listed as modified
CompareFilesCompareDone ==
    /\ pc \in {"returned", "raised"}
    /\ route = "compare_files"
    /\ call_no = 5
    /\ LET added == SortedDifference(saved.destination, saved.source)
           deleted == SortedDifference(saved.source, saved.destination)
           modified == IF pc = "raised" THEN <<>>
                       ELSE ModifiedFiles(CompareDiffs(all_results))
           first == IF pc = "raised"
                    THEN <<"Warning: Could not fetch diffs for modified files: ">> \o err
                    ELSE <<"Raw GitLab Compare Diffs: ",
                           ToString(CompareDiffs(all_results))>>
       IN  Respond(200,
                   [source_files |-> saved.source,
                    destination_files |-> saved.destination,
                    added_files_to_destination |-> added,
                    deleted_files_from_source |-> deleted,
                    modified_files |-> modified],
                   << first,
                      <<"Backend Final Lists - Added: ", ToString(added),
                        ", Deleted: ", ToString(deleted),
                        ", Modified: ", ToString(modified)>> >>)
    /\ UNCHANGED <<route, data, base_url, project_id, call_no, call, page,
                   all_results, err, saved, outbound>>

\* the 'diff' of the first diff whose old or new path is file_path; -1: None
FileDiffContent(compare_diffs, file_path) ==
    LET Hit(i) == compare_diffs[i].old_path = file_path
                  \/ compare_diffs[i].new_path = file_path
    IN  IF \E i \in 1..Len(compare_diffs) : Hit(i)
        THEN compare_diffs[CHOOSE i \in 1..Len(compare_diffs) :
                              Hit(i) /\ \A j \in 1..(i - 1) : ~Hit(j)].diff
        ELSE -1

\* get_file_content_diff after its call
FileContentDiffDone ==
    /\ pc \in {"returned", "raised"}
    /\ route = "file_content_diff"
    /\ IF pc = "raised"
       THEN RouteError(route, err, <<>>)
       ELSE LET content == FileDiffContent(CompareDiffs(all_results), data.filePath)
            IN  IF content = -1
                THEN Respond(200, [diff_content |-> 0,
                                   message |-> <<"File content is identical or file not found in diff.">>],
                             <<>>)
                ELSE Respond(200, [diff_content |-> content], <<>>)
    /\ UNCHANGED <<route, data, base_url, project_id, call_no, call, page,
                   all_results, err, saved, outbound>>

\* the server is ready for the next request
Idle ==
    /\ pc = "idle"
    /\ route = "none"
    /\ data = NoData
    /\ base_url = None
    /\ project_id = None
    /\ call_no = 0
    /\ call = NoCall
    /\ page = 0
    /\ all_results = <<>>
    /\ err = None
    /\ saved = NoSaved
    /\ outbound = <<>>
    /\ served = <<>>
    /\ log = <<>>
    /\ response = NoResponse

\* the response is sent; nothing of the request is kept
RequestDone ==
    /\ pc = "responded"
    /\ pc' = "idle"
    /\ route' = "none"
    /\ data' = NoData
    /\ base_url' = None
    /\ project_id' = None
    /\ call_no' = 0
    /\ call' = NoCall
    /\ page' = 0
    /\ all_results' = <<>>
    /\ err' = None
    /\ saved' = NoSaved
    /\ outbound' = <<>>
    /\ served' = <<>>
    /\ log' = <<>>
    /\ response' = NoResponse

Init == Idle

Next ==
    \/ get_branches
    \/ compare_commits
    \/ compare_files
    \/ get_file_content_diff
    \/ FetchPage
    \/ BranchesDone
    \/ CompareCommitsSourceDone
    \/ CompareCommitsDestinationDone
    \/ CompareFilesSourceBranchDone
    \/ CompareFilesSourceTreeDone
    \/ CompareFilesDestinationBranchDone
    \/ CompareFilesDestinationTreeDone
    \/ CompareFilesCompareDone
    \/ FileContentDiffDone
    \/ RequestDone

Spec == Init /\ [][Next]_vars

---------------------------------------------------------------------------
(* make_gitlab_api_request on its own: called with any of the callers' kinds
   of params, and with params that name page and per_page themselves *)

ApiParams ==
    { <<>>,
      << <<"per_page", 100>> >>,
      << <<"ref_name", <<"d", "e", "v">> >> >>,
      << <<"page", 7>>, <<"per_page", 5>>, <<"ref", 3>> >> }

ApiInit ==
    /\ pc = "paging"
    /\ route = "api"
    /\ data = NoData
    /\ base_url = None
    /\ project_id = None
    /\ call_no = 1
    /\ call \in { Call(<<"/projects/", "a", "%", "2", "F", "b", "/repository/commits">>,
                       Https \o GitlabCom, p, ps) : p \in Pats, ps \in ApiParams }
    /\ page = 1
    /\ all_results = <<>>
    /\ err = None
    /\ saved = NoSaved
    /\ outbound = <<>>
    /\ served = <<>>
    /\ log = <<>>
    /\ response = NoResponse

SpecApi == ApiInit /\ [][FetchPage]_vars

---------------------------------------------------------------------------
(* The resolution functions on their own: every enumerated URL is resolved *)

UrlInit ==
    /\ pc = "url"
    /\ route = "resolve"
    /\ data \in { [NoData EXCEPT !.repoUrl = u] : u \in Urls }
    /\ base_url = None
    /\ project_id = None
    /\ call_no = 0
    /\ call = NoCall
    /\ page = 0
    /\ all_results = <<>>
    /\ err = None
    /\ saved = NoSaved
    /\ outbound = <<>>
    /\ served = <<>>
    /\ log = <<>>
    /\ response = NoResponse

UrlGetBase ==
    /\ pc = "url"
    /\ base_url' = get_gitlab_base_url(data.repoUrl)
    /\ pc' = "url_base"
    /\ UNCHANGED <<route, data, project_id, call_no, call, page, all_results,
                   err, saved, outbound, served, log, response>>

UrlGetProjectId ==
    /\ pc = "url_base"
    /\ project_id' = get_project_id_from_url(data.repoUrl)
    /\ pc' = "url_done"
    /\ UNCHANGED <<route, data, base_url, call_no, call, page, all_results,
                   err, saved, outbound, served, log, response>>

UrlNext == UrlGetBase \/ UrlGetProjectId

SpecUrl == UrlInit /\ [][UrlNext]_vars


---------------------------------------------------------------------------
(* URL resolution: the claims, checked under SpecUrl *)

Resolved == pc = "url_done"

PctSlash == <<"%", "2", "F">>

\* url is https://host/seg1/.../segN, N >= 1, every segment non-empty, with
\* no userinfo, port, query or fragment and no .git suffix
HttpsForm(url) ==
    /\ StartsWith(url, Https)
    /\ Range(From(url, Len(Https) + 1)) \cap {"@", ":", "?", "#"} = {}
    /\ LET parts == Split(From(url, Len(Https) + 1), "/")
       IN  Len(parts) >= 2 /\ \A i \in 1..Len(parts) : parts[i] # <<>>
    /\ ~EndsWith(url, DotGit)

HostOf(url) == Split(From(url, Len(Https) + 1), "/")[1]
SegmentsOf(url) == Tail(Split(From(url, Len(Https) + 1), "/"))

C2_ProjectPathNonEmpty ==
    (Resolved /\ base_url # ValueError /\ project_id # ValueError) =>
        /\ project_id # <<>>
        /\ ~StartsWith(project_id, PctSlash)
        /\ ~EndsWith(project_id, PctSlash)
        /\ \A i \in 1..Len(project_id) :
              ~StartsWith(From(project_id, i), PctSlash \o PctSlash)

\* url has a scheme, a host and a path whose last segment is not empty, and
\* no query or fragment
EndsInSegment(url) ==
    /\ urlparse(url).scheme # <<>>
    /\ urlparse(url).netloc # <<>>
    /\ Range(url) \cap {"?", "#"} = {}
    /\ urlparse(url).path # <<>>
    /\ url[Len(url)] # "/"

\* C3 as stated: for a URL that ends in ".git" (and resolves), the URL with
\* one more ".git" appended resolves to the same base URL and project path.
C3_SuffixIdempotentAsStated ==
    (Resolved /\ base_url # ValueError /\ project_id # ValueError
       /\ EndsWith(data.repoUrl, DotGit)) =>
        /\ get_gitlab_base_url(data.repoUrl \o DotGit) = base_url
        /\ get_project_id_from_url(data.repoUrl \o DotGit) = project_id

\* C3 as amended: for a URL whose path ends in a non-empty segment that does
\* not end in ".git", appending ".git" changes neither the base URL nor the
\* project path; exactly one suffix is stripped, so for a URL that already
\* ends in ".git" the appended one stays in the project path; and a suffix
\* in another case (".Git") is not stripped.
C3_SuffixStrippedOnce ==
    (Resolved /\ EndsInSegment(data.repoUrl)) =>
        /\ get_gitlab_base_url(data.repoUrl \o DotGit) = base_url
        /\ ~EndsWith(data.repoUrl, DotGit) =>
              get_project_id_from_url(data.repoUrl \o DotGit) = project_id
        /\ EndsWith(data.repoUrl, DotGit) =>
              get_project_id_from_url(data.repoUrl \o DotGit) = project_id \o DotGit
        /\ EndsWith(data.repoUrl, <<".", "G", "i", "t">>) =>
              EndsWith(project_id, <<".", "G", "i", "t">>)

C3_Witness ==
    /\ Resolved
    /\ data.repoUrl = Https \o GitlabCom \o <<"/", "a", "/", "b">>
    /\ get_project_id_from_url(data.repoUrl \o DotGit) = <<"a", "%", "2", "F", "b">>
    /\ project_id = <<"a", "%", "2", "F", "b">>

\* C4: a URL with embedded userinfo resolves to a base URL without
\* credentials, the one of the same URL without the userinfo.
C4_UserinfoStripped ==
    (Resolved /\ StartsWith(data.repoUrl, Https \o UserInfo)) =>
        /\ "@" \notin Range(base_url)
        /\ base_url = get_gitlab_base_url(
                         Https \o From(data.repoUrl, Len(Https \o UserInfo) + 1))

\* url is user@host:path: an "@" after a non-empty user, then a ":" after a
\* non-empty host, with no "/" before that ":"
SshShorthand(url) ==
    LET at == Find(url, "@")
        colon == Find(url, ":")
    IN  /\ at > 1
        /\ colon > at + 1
        /\ "/" \notin Range(SubSeq(url, 1, colon))

---------------------------------------------------------------------------
(* The routes and the paging: the claims, checked under Spec and SpecApi *)

Responded == pc = "responded"

LastServed == served[Len(served)]

\* a required field of the route is absent or empty in the request
FieldMissing ==
    \/ ~Truthy(data.repoUrl)
    \/ route \in {"compare_commits", "compare_files", "file_content_diff"}
          /\ (~Truthy(data.sourceBranch) \/ ~Truthy(data.destinationBranch))
    \/ route = "file_content_diff" /\ data.filePath = 0

\* C6: a repoUrl that is empty or has no path segment ("https://gitlab.com///")
\* is answered with a client error: a 4xx status and an error.
C6_InvalidUrlIsClientError ==
    (Responded /\ data.repoUrl \in {<<>>, Https \o GitlabCom \o <<"/", "/", "/">>}) =>
        /\ response.status \in 400..499
        /\ "error" \in DOMAIN response.body

TokenChunks == {t[1] : t \in Tokens}

C8_ResolveBeforeRequests ==
    /\ outbound # <<>> =>
          /\ ~FieldMissing
          /\ base_url # ValueError /\ base_url = get_gitlab_base_url(data.repoUrl)
          /\ project_id # ValueError
          /\ project_id = get_project_id_from_url(data.repoUrl)
          /\ \A i \in 1..Len(outbound) :
                StartsWith(outbound[i].url,
                           base_url \o <<"/api/v4", "/projects/">> \o project_id)
    /\ (Responded /\ FieldMissing) =>
          /\ outbound = <<>> /\ call_no = 0
          /\ response.status = 400 /\ DOMAIN response.body = {"error"}
          /\ base_url = None /\ project_id = None
    /\ (Responded /\ ~FieldMissing
          /\ (get_gitlab_base_url(data.repoUrl) = ValueError
              \/ get_project_id_from_url(data.repoUrl) = ValueError)) =>
          /\ outbound = <<>> /\ call_no = 0
          /\ response.status = 500 /\ DOMAIN response.body = {"error"}

C8_Witness ==
    /\ Responded
    /\ route = "compare_files"
    /\ ~FieldMissing
    /\ project_id = ValueError
    /\ outbound = <<>>
    /\ response.status = 500

\* the body of the k-th page as a list: a non-list body is one element
PageBody(k, reply) ==
    IF reply.kind = "list" THEN ListPage(k, reply.n) ELSE <<ApiObject>>

\* the bodies of the pages 1..k, in page order
RECURSIVE PagesUpTo(_)
PagesUpTo(k) == IF k = 0 THEN <<>> ELSE PagesUpTo(k - 1) \o PageBody(k, served[k])

\* a page after which no page is requested
Stopping(reply) == reply.kind # "list" \/ reply.n = 0 \/ reply.n < PerPage

\* C9: make_gitlab_api_request asks for the pages 1, 2, 3, ... in order, each
\* with per_page = 100 whatever page and per_page the caller's params hold and
\* with the caller's other params unchanged; it asks for no page after a
\* stopping page; and what it returns is the concatenation, in page order, of
\* the pages it was served.
C9_Pagination ==
    /\ Len(outbound) = Len(served)
    /\ \A k \in 1..Len(outbound) :
          /\ DictGet(outbound[k].params, "page") = k
          /\ DictGet(outbound[k].params, "per_page") = 100
          /\ \A i \in 1..Len(outbound[k].params) : \A j \in 1..Len(outbound[k].params) :
                outbound[k].params[i][1] = outbound[k].params[j][1] => i = j
          /\ \A i \in 1..Len(call.params) :
                call.params[i][1] \notin {"page", "per_page"} =>
                   /\ DictHas(outbound[k].params, call.params[i][1])
                   /\ DictGet(outbound[k].params, call.params[i][1]) = call.params[i][2]
    /\ \A k \in 1..(Len(served) - 1) : ~IsFailure(served[k]) /\ ~Stopping(served[k])
    /\ pc = "paging" => page = Len(served) + 1
                        /\ (served # <<>> => ~IsFailure(LastServed) /\ ~Stopping(LastServed))
    /\ pc = "returned" =>
          /\ ~IsFailure(LastServed) /\ Stopping(LastServed)
          /\ all_results = PagesUpTo(Len(served))

C9_Witness ==
    /\ pc = "returned"
    /\ DictHas(call.params, "page")
    /\ Len(served) = 2
    /\ LastServed.n = PerPage - 1
    /\ Len(all_results) = 2 * PerPage - 1
    /\ all_results[PerPage + 1] = Item(2, 1)

\* the requests sent by the running make_gitlab_api_request call
CallRequests == SelectSeq(outbound, LAMBDA r : r.call_no = call_no)

\* C10 as stated: when a page request failed, the route answers 500 with an
\* error.
C10_FailureIsAlways500 ==
    (Responded /\ served # <<>> /\ IsFailure(LastServed)) =>
        /\ response.status = 500
        /\ "error" \in DOMAIN response.body

\* C10 as amended: when the request for a page fails, make_gitlab_api_request
\* raises, returns nothing of what it gathered, and sends no further request;
\* the route then answers 500 with an error and nothing else, except when the
\* failed call is the comparison of compare_files (its fifth call), which
\* the route catches: it answers 200 with the file lists and no modified file.
C10_AllOrNothing ==
    /\ \A k \in 1..Len(served) :
          IsFailure(served[k]) =>
             /\ k = Len(served)
             /\ pc \in {"raised", "responded"}
             /\ all_results = <<>>
             /\ err # None
             /\ Len(CallRequests) = k
             /\ outbound[Len(outbound)].call_no = call_no
    /\ pc = "raised" => served # <<>> /\ IsFailure(LastServed)
    /\ (Responded /\ served # <<>> /\ IsFailure(LastServed)) =>
          IF route = "compare_files" /\ call_no = 5
          THEN /\ response.status = 200
               /\ DOMAIN response.body =
                     {"source_files", "destination_files", "added_files_to_destination",
                      "deleted_files_from_source", "modified_files"}
               /\ response.body.modified_files = <<>>
          ELSE /\ response.status = 500
               /\ DOMAIN response.body = {"error"}
               /\ response.body.error = err

C10_Witness ==
    /\ Responded
    /\ route = "compare_commits"
    /\ call_no = 2
    /\ saved.source # <<>>
    /\ Len(served) = 2
    /\ IsFailure(LastServed)
    /\ response.status = 500

=============================================================================
